---- MODULE Spec2Model ----
(***************************************************************************)
(* The protofsm StateMachine executor: the Start/Stop lifecycle, SendEvent *)
(* and the size-1 intake channel, the driver loop (driveMachine), the      *)
(* transition engine (applyEvents), the daemon-event dispatcher            *)
(* (executeDaemonEvent) and the workers it spawns.                         *)
(*                                                                         *)
(* State.ProcessEvent, State.IsTerminal, Environment.CleanUp, the          *)
(* SendWhen predicate and the DaemonAdapters are supplied by the caller:   *)
(* every result they can return is drawn nondeterministically from a       *)
(* small set.  A Go select with several ready cases picks any of them.     *)
(***************************************************************************)
EXTENDS Integers, Sequences, FiniteSets, TLC

\* ------------------------------------------------------------- bounds
\* Number of SendEvent calls made by outside callers.
MaxSends == 2
\* Number of workers (pollers, waiters, injectors) spawned over a run.
MaxWorkers == 1

\* Goroutines a run of gated sends with post-send events may spawn.
GateWorkers == 2

\* Chain hashes are the numbers 0..MaxHash.
MaxHash == 2

\* chainhash.Hash{}, the hash of 32 zero bytes that tlv.ZeroRecordT holds
ZeroHash == 0

\* *chaincfg.MainNetParams.GenesisHash
MainNetGenesisHash == 1
\* Number of SendEvent calls in the runs that explore every transition a
\* protocol can make (Spec), where each event multiplies the transitions.
ChainSends == 1
\* Number of transitions in one event chain (one external event plus the
\* internal events it leads to).
MaxChain == 2

\* ------------------------------------------------- program constants
\* make(chan Event, 1)
EventsCap == 1
\* fn.NewEventReceiver(10)
SubscriberBuffer == 10

\* ----------------------------------------------------- value domains
\* The caller's states; "T" is the one whose IsTerminal() is true.
States == {"A", "B", "T"}
InitialState == "A"

IsTerminal(st) == st = "T"

Senders == 1..MaxSends
Workers == 1..(IF GateWorkers > MaxWorkers THEN GateWorkers ELSE MaxWorkers)

\* An event is opaque to the executor.  k names where it came from, r is
\* the number of the chain that emitted it (internal events only), late
\* says that quit was closed when it was handed to SendEvent.
Ev(k, r, late) == [k |-> k, r |-> r, late |-> late]

\* The DaemonEvent variants of the dispatcher's type switch, plus a type
\* that is none of them.  gated: SendWhen is Some; post: the Post*Event
\* is Some.
DE(kind, gated, post) == [kind |-> kind, gated |-> gated, post |-> post]

DaemonEvents ==
    { DE("SendMsgEvent", g, p) : g \in BOOLEAN, p \in BOOLEAN }
    \cup { DE("BroadcastTxn", FALSE, FALSE), DE("Other", FALSE, FALSE) }
    \cup { DE("RegisterSpend", FALSE, p) : p \in BOOLEAN }
    \cup { DE("RegisterConf", FALSE, p) : p \in BOOLEAN }

\* The DaemonEventSets a transition may emit: none, any single event, and
\* a broadcast followed by any event.
DaemonSets ==
    { <<>> }
    \cup { <<d>> : d \in DaemonEvents }
    \cup { <<DE("BroadcastTxn", FALSE, FALSE), d>> : d \in DaemonEvents }

\* Worker slots a daemon event may come to use: a gated send with a
\* post-send event uses the poller's and later the injector's.
Demand(d) ==
    CASE d.kind = "SendMsgEvent" /\ d.gated /\ d.post -> 2
      [] d.kind = "SendMsgEvent" /\ d.gated -> 1
      [] d.kind = "SendMsgEvent" /\ d.post -> 1
      [] d.kind \in {"RegisterSpend", "RegisterConf"} -> 1
      [] OTHER -> 0

RECURSIVE DemandAll(_)
DemandAll(ds) == IF ds = <<>> THEN 0 ELSE Demand(Head(ds)) + DemandAll(Tail(ds))

NoWorker ==
    [kind |-> "none", pc |-> "none", post |-> FALSE, sends |-> 0, late |-> FALSE]

\* A goroutine that has returned (its slot is not used again).  late: the
\* waiter's channel fired after quit was closed.
Exited ==
    [kind |-> "done", pc |-> "done", post |-> FALSE, sends |-> 0, late |-> FALSE]

VARIABLES
    \* what the callers do: the daemon event sets and the next states
    \* their ProcessEvent returns, whether it emits internal events, and
    \* the SendEvent calls they make
    proto,
    \* StateMachine fields
    sCurrentState,  \* s.currentState
    events,         \* s.events, the intake channel (capacity 1)
    quit,           \* s.quit is closed
    wg,             \* s.wg counter
    startOnce,      \* s.startOnce has run
    stopOnce,       \* s.stopOnce has run
    \* callers
    stopPc,         \* the first Stop call: "idle", "waiting" (in wg.Wait), "returned"
    senders,        \* SendEvent callers
    qPc,            \* the CurrentState caller: "idle", "sending", "waiting"
    qReply,         \* query.CurrentState, the reply channel (capacity 1)
    qStale,         \* the driver holds a query whose caller has timed out
    qWhen,          \* when the pending CurrentState call was made: "early"
                    \* (quit open), "late" (quit closed, the driver not
                    \* yet returned) or "gone" (the driver has returned)
    sub,            \* a subscriber: whether and when it registered, and
                    \* the notifications it was handed and has not read
    \* the driver goroutine
    driverPc,       \* "off", "notify", "select", "apply", "reply", "done"
    dCurrentState,  \* driveMachine's local currentState
    \* applyEvents locals
    aCurrentState,  \* applyEvents' local currentState
    eventQueue,     \* applyEvents' eventQueue
    aErr,           \* applyEvents is returning an error
    chainLen,       \* transitions made in this call of applyEvents
    aTerminal,      \* a transition of this call produced a terminal state
    \* spawned goroutines other than the driver
    workers,
    \* observations of what the collaborators were asked to do
    obs,
    \* a ChannelAnnouncement2 message being signed and decoded
    wire

lifecycle == <<quit, wg, startOnce, stopOnce, stopPc>>
callers == <<senders, qPc, qReply, qStale, qWhen>>
driver == <<driverPc, dCurrentState>>
engine == <<aCurrentState, eventQueue, aErr, chainLen, aTerminal>>
machine == <<proto, sCurrentState, events, lifecycle, callers, sub, driver, engine,
             workers, obs>>
vars == <<machine, wire>>

\* obs fields:
\*   published  the state last handed to newStateEvents.NotifySubscribers
\*   cleanUps   calls of env.CleanUp
\*   drivers    driveMachine goroutines spawned
\*   closes     close(s.quit) executions
\*   chainNo    events taken from the intake so far
\*   maxRoot    the largest chain number for which ProcessEvent has run
\*   orderOk    no ProcessEvent call belonged to an older chain than maxRoot
\*   last       the call made by the step that led to this state
NoCall == [call |-> "none"]

ObsInit ==
    [published |-> "none", cleanUps |-> 0, drivers |-> 0, closes |-> 0,
     chainNo |-> 0, maxRoot |-> 0, orderOk |-> TRUE, last |-> NoCall]

\* A step that calls no collaborator.
Quiet == obs' = [obs EXCEPT !.last = NoCall]

\* The protocol run on the executor: the daemon event sets and the states
\* its transitions produce, whether they emit internal events, how often
\* the outside sends it an event, whether the run records which calls
\* were made after quit was closed (audit), and how many goroutines its
\* daemon events may spawn.
\*
\* A protocol of chained transitions: every state, internal events, and
\* the daemon events that fail or lead to a further event.
FullProto ==
    [sets |-> { ds \in DaemonSets :
                  \A i \in 1..Len(ds) :
                      ds[i].post \/ ds[i].gated
                          \/ ds[i].kind \in {"BroadcastTxn", "Other"} },
     internal |-> TRUE, next |-> States, sends |-> ChainSends,
     audit |-> TRUE, workers |-> MaxWorkers]

\* A protocol of flat transitions: at most one daemon event of any kind,
\* no internal event.
FlatProto ==
    [sets |-> { ds \in DaemonSets : Len(ds) <= 1 },
     internal |-> FALSE, next |-> {"A", "T"}, sends |-> MaxSends,
     audit |-> TRUE, workers |-> MaxWorkers]

\* A protocol that only registers workers: a gated send, a spend waiter
\* with a post event, a confirmation waiter.
WaitProto ==
    [sets |-> { <<>>, <<DE("SendMsgEvent", TRUE, FALSE)>>,
                <<DE("RegisterSpend", FALSE, TRUE)>>,
                <<DE("RegisterConf", FALSE, FALSE)>> },
     internal |-> FALSE, next |-> {"B"}, sends |-> MaxSends,
     audit |-> FALSE, workers |-> MaxWorkers]

\* A protocol that spawns no worker: transitions without daemon events,
\* with a broadcast (which may fail) or with an event of no known kind.
PlainProto ==
    [sets |-> { <<>>, <<DE("BroadcastTxn", FALSE, FALSE)>>,
                <<DE("Other", FALSE, FALSE)>> },
     internal |-> FALSE, next |-> States, sends |-> MaxSends,
     audit |-> TRUE, workers |-> MaxWorkers]

\* A protocol of chained transitions that spawns no worker: no daemon
\* event or a broadcast (which may fail), and internal events.
ChainProto ==
    [sets |-> { <<>>, <<DE("BroadcastTxn", FALSE, FALSE)>> },
     internal |-> TRUE, next |-> States, sends |-> ChainSends,
     audit |-> TRUE, workers |-> MaxWorkers]

\* A protocol of sends with a post-send event, gated by a predicate or
\* not.
GateProto ==
    [sets |-> { <<>>, <<DE("SendMsgEvent", TRUE, TRUE)>>,
                <<DE("SendMsgEvent", FALSE, TRUE)>> },
     internal |-> FALSE, next |-> {"B"}, sends |-> MaxSends,
     audit |-> FALSE, workers |-> GateWorkers]

\* The stamp a call gets when it is made after quit was closed (kept only
\* in the runs that record when calls were made).
Late == proto.audit /\ quit

\* No message is being handled.
NoMessage == [pc |-> "none"]

\* NewStateMachine
NewStateMachine ==
    /\ sCurrentState = InitialState
    /\ events = <<>>
    /\ quit = FALSE
    /\ wg = 0
    /\ startOnce = FALSE
    /\ stopOnce = FALSE
    /\ stopPc = "idle"
    /\ senders = [i \in Senders |-> [pc |-> "idle", late |-> FALSE]]
    /\ qPc = "idle"
    /\ qReply = <<>>
    /\ qStale = FALSE
    /\ qWhen = "early"
    /\ sub = [reg |-> "no", inbox |-> <<>>]
    /\ driverPc = "off"
    /\ dCurrentState = "none"
    /\ aCurrentState = "none"
    /\ eventQueue = <<>>
    /\ aErr = FALSE
    /\ chainLen = 0
    /\ aTerminal = FALSE
    /\ workers = [w \in Workers |-> NoWorker]
    /\ obs = ObsInit

\* A new executor, with no wire message around.
Fresh == NewStateMachine /\ wire = NoMessage

Init == proto = FullProto /\ Fresh

\* ------------------------------------------------- Start, Stop
\* Start without the once guard.
StartAlways == TRUE

\* startOnce.Do runs its function on the first call only.
StartRuns == ~startOnce

\* Start
Start ==
    /\ IF StartRuns
       THEN /\ startOnce' = TRUE
            /\ wg' = wg + 1
            /\ driverPc' = "notify"
            /\ obs' = [obs EXCEPT !.drivers = @ + 1,
                          !.last = [call |-> "Start", again |-> startOnce]]
       ELSE /\ obs' = [obs EXCEPT !.last = [call |-> "Start", again |-> TRUE]]
            /\ UNCHANGED <<startOnce, wg, driverPc>>
    /\ UNCHANGED <<proto, wire, sub, sCurrentState, events, quit, stopOnce, stopPc, callers,
                   dCurrentState, engine, workers>>

\* stopOnce.Do runs its function on the first call only.
StopRuns == ~stopOnce

\* Stop, up to wg.Wait: close(s.quit)
StopCall ==
    /\ IF StopRuns
       THEN /\ stopOnce' = TRUE
            /\ quit' = TRUE
            /\ stopPc' = "waiting"
            /\ obs' = [obs EXCEPT !.closes = @ + 1,
                          !.last = [call |-> "Stop", again |-> stopOnce]]
       ELSE /\ obs' = [obs EXCEPT !.last = [call |-> "Stop", again |-> TRUE]]
            /\ UNCHANGED <<stopOnce, quit, stopPc>>
    /\ UNCHANGED <<proto, wire, sub, sCurrentState, events, wg, startOnce, callers, driver,
                   engine, workers>>

\* Stop: s.wg.Wait() returns once the counter is zero
StopReturn ==
    /\ stopPc = "waiting"
    /\ wg = 0
    /\ stopPc' = "returned"
    /\ Quiet
    /\ UNCHANGED <<proto, wire, sub, sCurrentState, events, quit, wg, startOnce, stopOnce,
                   callers, driver, engine, workers>>

\* ------------------------------------------------- SendEvent
\* A send on the intake that never blocks.
AlwaysRoom(ch) == TRUE

\* The send s.events <- event can proceed: the buffer is not full.
HasRoom(ch) == Len(ch) < EventsCap

\* SendEvent without its quit case.
SendIgnoresQuit == FALSE

\* SendEvent's case <-s.quit can be taken.
SendSeesQuit == quit

\* A caller enters SendEvent and reaches its select.
SendCall(i) ==
    /\ senders[i].pc = "idle"
    /\ i <= proto.sends
    /\ \A j \in Senders : j < i => senders[j].pc # "idle"
    /\ senders' = [senders EXCEPT ![i] = [pc |-> "blocked", late |-> Late]]
    /\ Quiet
    /\ UNCHANGED <<proto, wire, sub, sCurrentState, events, lifecycle, qPc, qReply, qStale, qWhen,
                   driver, engine, workers>>

\* case s.events <- event
SendAccept(i) ==
    /\ senders[i].pc = "blocked"
    /\ HasRoom(events)
    /\ events' = Append(events, Ev("ext", 0, senders[i].late))
    /\ senders' = [senders EXCEPT ![i] = [pc |-> "done", late |-> FALSE]]
    /\ Quiet
    /\ UNCHANGED <<proto, wire, sub, sCurrentState, lifecycle, qPc, qReply, qStale, qWhen, driver,
                   engine, workers>>

\* case <-s.quit
SendQuit(i) ==
    /\ senders[i].pc = "blocked"
    /\ SendSeesQuit
    /\ senders' = [senders EXCEPT ![i] = [pc |-> "done", late |-> FALSE]]
    /\ Quiet
    /\ UNCHANGED <<proto, wire, sub, sCurrentState, events, lifecycle, qPc, qReply, qStale, qWhen,
                   driver, engine, workers>>

\* ------------------------------------------------- CurrentState
\* SendOrQuit with a default case: it gives up whenever it likes.
QueryGivesUp == TRUE

\* SendOrQuit's case <-quit can be taken.
QuerySeesQuit == quit

\* The result record of a CurrentState call.
QueryResult(result) ==
    [call |-> "CurrentState", result |-> result, when |-> qWhen]

\* The caller makes the query, with a fresh reply channel, and reaches
\* SendOrQuit.
QueryCall ==
    /\ qPc = "idle"
    /\ qPc' = "sending"
    /\ qWhen' = IF ~Late THEN "early"
                ELSE IF driverPc = "done" THEN "gone" ELSE "late"
    /\ Quiet
    /\ UNCHANGED <<proto, wire, sub, sCurrentState, events, lifecycle, senders, qReply, qStale,
                   driver, engine, workers>>

\* SendOrQuit took the quit case: "state machine is shutting down"
QueryQuit ==
    /\ qPc = "sending"
    /\ QuerySeesQuit
    /\ qPc' = "idle"
    /\ qWhen' = "early"
    /\ obs' = [obs EXCEPT !.last = QueryResult("shutdown")]
    /\ UNCHANGED <<proto, wire, sub, sCurrentState, events, lifecycle, senders, qReply, qStale,
                   driver, engine, workers>>

\* RecvOrTimeout received the reply
QueryRecv ==
    /\ qPc = "waiting"
    /\ qReply # <<>>
    /\ qPc' = "idle"
    /\ qWhen' = "early"
    /\ qReply' = <<>>
    /\ obs' = [obs EXCEPT !.last = QueryResult(Head(qReply))]
    /\ UNCHANGED <<proto, wire, sub, sCurrentState, events, lifecycle, senders, qStale, driver,
                   engine, workers>>

\* RecvOrTimeout timed out; a reply that comes later goes to a channel
\* nobody reads.
QueryTimeout ==
    /\ qPc = "waiting"
    /\ qPc' = "idle"
    /\ qWhen' = "early"
    /\ qReply' = <<>>
    /\ qStale' = (driverPc = "reply")
    /\ obs' = [obs EXCEPT !.last = QueryResult("timeout")]
    /\ UNCHANGED <<proto, wire, sub, sCurrentState, events, lifecycle, senders, driver, engine,
                   workers>>

\* ------------------------------------------------- subscriptions
\* A subscriber attaches before or after Start; its receiver is new.
RegisterStateEvents ==
    /\ sub.reg = "no"
    /\ sub' = [reg |-> IF startOnce THEN "late" ELSE "early", inbox |-> <<>>]
    /\ Quiet
    /\ UNCHANGED <<proto, wire, sCurrentState, events, lifecycle, callers, driver, engine,
                   workers>>

\* newStateEvents.NotifySubscribers: each state goes to the registered
\* subscriber's buffer, in order, unless the buffer is full.
RECURSIVE NotifySubscribers(_, _)
NotifySubscribers(sb, sts) ==
    IF sts = <<>> \/ sb.reg = "no"
    THEN sb
    ELSE NotifySubscribers(
             [sb EXCEPT !.inbox = IF Len(@) < SubscriberBuffer
                                  THEN Append(@, Head(sts)) ELSE @],
             Tail(sts))

\* driveMachine that publishes nothing when it starts.
NoInitialNotification(st) == <<>>

\* The states driveMachine publishes when it starts.
InitialNotification(st) == <<st>>

\* applyEvents publishing the state it leaves.
PublishedBefore(cur, next) == <<cur>>

\* The states applyEvents publishes after a transition from cur to next.
Published(cur, next) == <<next>>

\* ------------------------------------------------- workers
Used(ws) == Cardinality({w \in Workers : ws[w].kind # "none"})

\* Slots kept for the injectors that live pollers may still spawn.
Reserved(ws) ==
    Cardinality({w \in Workers : ws[w].kind = "poller" /\ ws[w].pc = "poll"
                                 /\ ws[w].post})

FreeSlot(ws) ==
    CHOOSE w \in Workers :
        /\ ws[w].kind = "none"
        /\ \A v \in Workers : v < w => ws[v].kind # "none"

\* A goroutine started without being added to the wait group.
WgSkip(n) == n

\* s.wg.Add(1), made by the caller before its go statement
WgAdd(n) == n + 1

\* s.wg.Add(1); go func() {...}(): the goroutine starts at its first
\* blocking point.
Spawn(ws, kind, post) ==
    [ws EXCEPT ![FreeSlot(ws)] =
        [kind |-> kind, post |-> post, sends |-> 0, late |-> FALSE,
         pc |-> CASE kind = "poller" -> "poll"
                  [] kind = "inject" -> "send"
                  [] OTHER -> "wait"]]

\* ------------------------------------------------- executeDaemonEvent
\* The post-send event sent to the intake channel by the caller itself.
SendInline(ch, post) ==
    IF post THEN Append(ch, Ev("postSend", 0, FALSE)) ELSE ch

\* PostSendEvent.WhenSome(func(event) { s.wg.Add(1); go func() {
\* s.SendEvent(event) }() }): the intake channel as sendAndCleanUp leaves
\* it; the send is left to the goroutine.
SendSpawned(ch, post) == ch

\* The post-send event injected whatever SendMessages returned.
PostSendAlways(ok, post) == post

\* sendAndCleanUp returns on a SendMessages error before it looks at
\* PostSendEvent: the injector is started when the send succeeded and
\* there is a post-send event.
PostSendAfter(ok, post) == ok /\ post

\* The error executeDaemonEvent returns, the goroutine it spawns and the
\* intake channel ch as it leaves it, for daemon event d when the adapter
\* call it makes returns ok.  A gated send makes no adapter call here.
ExecuteDaemonEvent(d, ok, ch) ==
    CASE d.kind = "SendMsgEvent" /\ ~d.gated ->
            [err   |-> IF ok THEN "none" ELSE "send",
             spawn |-> IF PostSendAfter(ok, d.post) THEN "inject" ELSE "none",
             chan  |-> IF ok THEN SendSpawned(ch, d.post) ELSE ch]
      [] d.kind = "SendMsgEvent" /\ d.gated ->
            [err |-> "none", spawn |-> "poller", chan |-> ch]
      [] d.kind = "BroadcastTxn" ->
            [err |-> IF ok THEN "none" ELSE "broadcast", spawn |-> "none",
             chan |-> ch]
      [] d.kind = "RegisterSpend" ->
            IF ok
            THEN [err |-> "none", spawn |-> "spend", chan |-> ch]
            ELSE [err |-> "register", spawn |-> "none", chan |-> ch]
      [] d.kind = "RegisterConf" ->
            \* the case has no return nil: control reaches the final return
            IF ok
            THEN [err |-> "unknown", spawn |-> "conf", chan |-> ch]
            ELSE [err |-> "register", spawn |-> "none", chan |-> ch]
      [] OTHER ->
            [err |-> "unknown", spawn |-> "none", chan |-> ch]

\* The daemon events visited last to first.
DispatchReversed(n) == [i \in 1..n |-> n + 1 - i]

\* for _, dEvent := range dEvents: the positions in the order visited
DispatchOrder(n) == [i \in 1..n |-> i]

\* One turn of the dispatch loop: executeDaemonEvent on the daemon event
\* at position i.  acc carries the workers, the wg counter, the intake
\* channel, the positions dispatched, the last executeDaemonEvent call and
\* the error.
DispatchOne(ds, oks, i, acc) ==
    LET r == ExecuteDaemonEvent(ds[i], oks[i], acc.chan)
        post == IF r.spawn = "inject" THEN TRUE ELSE ds[i].post
    IN [ws   |-> IF r.spawn = "none" THEN acc.ws
                 ELSE Spawn(acc.ws, r.spawn, post),
        wg   |-> IF r.spawn = "none" THEN acc.wg ELSE WgAdd(acc.wg),
        chan |-> r.chan,
        dlog |-> Append(acc.dlog, i),
        exec |-> [kind |-> ds[i].kind, ok |-> oks[i], err |-> r.err],
        err  |-> IF acc.err # "none" THEN acc.err ELSE r.err]

\* The dispatch loop going on after an error and returning the first one.
RECURSIVE DispatchIgnoringErrors(_, _, _, _)
DispatchIgnoringErrors(ds, oks, order, acc) ==
    IF order = <<>>
    THEN acc
    ELSE DispatchIgnoringErrors(ds, oks, Tail(order),
             DispatchOne(ds, oks, Head(order), acc))

\* The dispatch loop of applyEvents over the positions in order, stopping
\* at the first error.
RECURSIVE Dispatch(_, _, _, _)
Dispatch(ds, oks, order, acc) ==
    IF order = <<>> \/ acc.err # "none"
    THEN acc
    ELSE Dispatch(ds, oks, Tail(order), DispatchOne(ds, oks, Head(order), acc))

\* ------------------------------------------------- applyEvents
\* The internal event sent back through the intake channel.
RouteThroughIntake(q, ch, e) == [queue |-> q, chan |-> Append(ch, e)]

\* events.InternalEvent.WhenSome(eventQueue.Enqueue): where the internal
\* event goes.
RouteInternal(q, ch, e) == [queue |-> Append(q, e), chan |-> ch]

\* The daemon event makes an adapter call that can return an error.
CallsAdapter(d) == d.kind # "Other" /\ ~(d.kind = "SendMsgEvent" /\ d.gated)

\* One turn of the loop of applyEvents: dequeue the next event, call
\* ProcessEvent on the local current state, dispatch the daemon events,
\* enqueue the internal event, advance the local state and publish it.
\* ProcessEvent returns an error, or a transition with daemon events ds;
\* fail is the position of the daemon event whose adapter call returns an
\* error (0: none does).
ApplyStep ==
    /\ driverPc = "apply"
    /\ ~aErr
    /\ eventQueue # <<>>
    /\ LET ev == Head(eventQueue)
           root == IF ev.k = "int" THEN ev.r ELSE obs.chainNo
           seen == [obs EXCEPT
                      !.maxRoot = IF root > @ THEN root ELSE @,
                      !.orderOk = @ /\ root >= obs.maxRoot]
           call == [call |-> "ProcessEvent", on |-> aCurrentState, ev |-> ev,
                    afterStop |-> stopPc = "returned",
                    err |-> "none", dlen |-> 0, dlog |-> <<>>, enq |-> FALSE,
                    exec |-> [kind |-> "none", ok |-> FALSE, err |-> "none"]]
       IN \/ \* ProcessEvent returned an error
             /\ aErr' = TRUE
             /\ eventQueue' = Tail(eventQueue)
             /\ obs' = [seen EXCEPT !.last = [call EXCEPT !.err = "process"]]
             /\ UNCHANGED <<events, wg, workers, aCurrentState, chainLen,
                            aTerminal, sub>>
          \/ \* ProcessEvent returned a transition
             \E ds \in proto.sets :
             \E fail \in 0..Len(ds) :
                /\ fail > 0 => CallsAdapter(ds[fail])
                /\ Used(workers) + Reserved(workers) + DemandAll(ds) <= proto.workers
                /\ LET oks == [i \in 1..Len(ds) |-> i # fail]
                       acc == Dispatch(ds, oks, DispatchOrder(Len(ds)),
                                  [ws |-> workers, wg |-> wg, chan |-> events,
                                   dlog |-> <<>>,
                                   exec |-> call.exec, err |-> "none"])
                       done == [call EXCEPT !.dlen = Len(ds), !.dlog = acc.dlog,
                                            !.exec = acc.exec, !.err = acc.err]
                   IN /\ workers' = acc.ws
                      /\ wg' = acc.wg
                      /\ IF acc.err # "none"
                         THEN /\ aErr' = TRUE
                              /\ eventQueue' = Tail(eventQueue)
                              /\ events' = acc.chan
                              /\ obs' = [seen EXCEPT !.last = done]
                              /\ UNCHANGED <<aCurrentState, chainLen,
                                             aTerminal, sub>>
                         ELSE \E next \in proto.next, internal \in BOOLEAN :
                              LET rt == RouteInternal(Tail(eventQueue), acc.chan,
                                            Ev("int", obs.chainNo, FALSE))
                              IN /\ internal => proto.internal /\ chainLen + 1 < MaxChain
                                 /\ aErr' = FALSE
                                 /\ eventQueue' = IF internal THEN rt.queue
                                                  ELSE Tail(eventQueue)
                                 /\ events' = IF internal THEN rt.chan ELSE acc.chan
                                 /\ aCurrentState' = next
                                 /\ chainLen' = chainLen + 1
                                 /\ aTerminal' = (aTerminal \/ IsTerminal(next))
                                 /\ sub' = NotifySubscribers(sub,
                                               Published(aCurrentState, next))
                                 /\ obs' = [seen EXCEPT
                                              !.published = next,
                                              !.last = [done EXCEPT !.enq = internal]]
    /\ UNCHANGED <<proto, wire, sCurrentState, quit, startOnce, stopOnce, stopPc, callers,
                   driver>>

\* ------------------------------------------------- driveMachine
\* currentState := s.currentState; NotifySubscribers(currentState)
DriverNotify ==
    /\ driverPc = "notify"
    /\ dCurrentState' = sCurrentState
    /\ driverPc' = "select"
    /\ sub' = NotifySubscribers(sub, InitialNotification(sCurrentState))
    /\ obs' = [obs EXCEPT !.published = sCurrentState, !.last = NoCall]
    /\ UNCHANGED <<proto, wire, sCurrentState, events, lifecycle, callers, engine, workers>>

\* case newEvent := <-s.events, and the first lines of applyEvents
DriverRecvEvent ==
    /\ driverPc = "select"
    /\ events # <<>>
    /\ events' = Tail(events)
    /\ aCurrentState' = sCurrentState
    /\ eventQueue' = <<Head(events)>>
    /\ aErr' = FALSE
    /\ chainLen' = 0
    /\ aTerminal' = FALSE
    /\ driverPc' = "apply"
    /\ obs' = [obs EXCEPT !.chainNo = @ + 1, !.last = NoCall]
    /\ UNCHANGED <<proto, wire, sub, sCurrentState, lifecycle, callers, dCurrentState, workers>>

\* The driver leaving its loop once the machine is terminal.
ExitOnTerminal(err, terminal, cleanErr) ==
    IF ~err /\ terminal THEN "done" ELSE "select"

\* Where the driver goes after it handled the result of applyEvents: the
\* error is logged (continue), a CleanUp error is logged, and the loop
\* goes on.
AfterApply(err, terminal, cleanErr) == "select"

\* applyEvents returns (the queue is empty, or an error ended the loop)
\* and the driver handles the result: on an error it logs and continues,
\* otherwise it takes the new state and calls CleanUp if it is terminal;
\* CleanUp returns nil or an error.
DriverAfterApply ==
    /\ driverPc = "apply"
    /\ aErr \/ eventQueue = <<>>
    /\ \E cleanErr \in BOOLEAN :
          LET clean == ~aErr /\ IsTerminal(aCurrentState)
          IN /\ cleanErr => clean
             /\ dCurrentState' = IF aErr THEN dCurrentState ELSE aCurrentState
             /\ driverPc' = AfterApply(aErr, clean, cleanErr)
             /\ obs' = [obs EXCEPT
                          !.cleanUps = IF clean THEN @ + 1 ELSE @,
                          !.last = [call |-> "applyEvents", err |-> aErr,
                                    terminal |-> aTerminal, cleanUp |-> clean,
                                    cleanErr |-> cleanErr]]
    /\ aCurrentState' = "none"
    /\ eventQueue' = <<>>
    /\ aErr' = FALSE
    /\ chainLen' = 0
    /\ aTerminal' = FALSE
    /\ UNCHANGED <<proto, wire, sub, sCurrentState, events, lifecycle, callers, workers>>

\* case stateQuery := <-s.stateQuery (a rendezvous with the caller)
DriverRecvQuery ==
    /\ driverPc = "select"
    /\ qPc = "sending"
    /\ qPc' = "waiting"
    /\ driverPc' = "reply"
    /\ Quiet
    /\ UNCHANGED <<proto, wire, sub, sCurrentState, events, lifecycle, senders, qReply, qStale, qWhen,
                   dCurrentState, engine, workers>>

\* SendOrQuit(stateQuery.CurrentState, currentState, s.quit): the reply
\* channel has room; with quit closed either case may be taken.
DriverReply ==
    /\ driverPc = "reply"
    /\ \/ /\ qReply' = IF qStale THEN qReply ELSE <<dCurrentState>>
          /\ driverPc' = "select"
          /\ UNCHANGED wg
       \/ /\ quit
          /\ driverPc' = "done"
          /\ wg' = wg - 1
          /\ UNCHANGED qReply
    /\ qStale' = FALSE
    /\ Quiet
    /\ UNCHANGED <<proto, wire, sub, sCurrentState, events, quit, startOnce, stopOnce, stopPc,
                   senders, qPc, qWhen, dCurrentState, engine, workers>>

\* case <-s.quit
DriverQuit ==
    /\ driverPc = "select"
    /\ quit
    /\ driverPc' = "done"
    /\ wg' = wg - 1
    /\ Quiet
    /\ UNCHANGED <<proto, wire, sub, sCurrentState, events, quit, startOnce, stopOnce, stopPc,
                   callers, dCurrentState, engine, workers>>

\* ------------------------------------------------- spawned goroutines
\* The follow-up event a worker hands to SendEvent.
PostKind(kind) ==
    CASE kind = "spend" -> "postSpend"
      [] kind = "conf" -> "postConf"
      [] OTHER -> "postSend"

\* The poller sending whatever the predicate says.
PollSendsAlways(canSend) == TRUE

\* if canSend { sendAndCleanUp(); return }
PollSends(canSend) == canSend

\* The poller after it polled: it returns once it has sent.
PollerAfter(me, sent) == IF sent THEN Exited ELSE me

\* The poller's case <-predicateTicker.C: poll SendWhen; when it allows
\* the send, call SendMessages (which returns ok or an error), spawn the
\* post-send injector on success, and exit.
PollerTick(w) ==
    /\ workers[w].kind = "poller"
    /\ workers[w].pc = "poll"
    /\ \E canSend \in BOOLEAN, ok \in BOOLEAN :
          LET sent == PollSends(canSend)
              me == [workers[w] EXCEPT !.sends = IF sent THEN @ + 1 ELSE @]
              after == PollerAfter(me, sent)
              ws == [workers EXCEPT ![w] = after]
              inject == sent /\ PostSendAfter(ok, me.post)
          IN /\ sent \/ ok
             /\ workers' = IF inject THEN Spawn(ws, "inject", TRUE) ELSE ws
             /\ wg' = (IF inject THEN WgAdd(wg) ELSE wg)
                         - (IF after.pc = "done" THEN 1 ELSE 0)
             /\ obs' = [obs EXCEPT !.last =
                           [call |-> "poll", w |-> w, canSend |-> canSend,
                            sent |-> sent, sends |-> me.sends, ok |-> ok,
                            afterQuit |-> quit, inject |-> inject]]
    /\ UNCHANGED <<proto, wire, sub, sCurrentState, events, quit, startOnce, stopOnce, stopPc,
                   callers, driver, engine>>

\* The poller's case <-s.quit
PollerQuit(w) ==
    /\ workers[w].kind = "poller"
    /\ workers[w].pc = "poll"
    /\ quit
    /\ workers' = [workers EXCEPT ![w] = Exited]
    /\ wg' = wg - 1
    /\ obs' = [obs EXCEPT !.last = [call |-> "pollerQuit", w |-> w,
                                    sends |-> workers[w].sends]]
    /\ UNCHANGED <<proto, wire, sub, sCurrentState, events, quit, startOnce, stopOnce, stopPc,
                   callers, driver, engine>>

\* A spend or confirmation waiter's case <-spendEvent.Spend or
\* <-confEvent.Confirmed: it goes on to SendEvent when there is a
\* follow-up event, and exits otherwise.
WaiterFire(w) ==
    /\ workers[w].kind \in {"spend", "conf"}
    /\ workers[w].pc = "wait"
    /\ workers' = [workers EXCEPT ![w] =
                      IF workers[w].post
                      THEN [@ EXCEPT !.pc = "send", !.late = Late]
                      ELSE Exited]
    /\ wg' = IF workers[w].post THEN wg ELSE wg - 1
    /\ obs' = [obs EXCEPT !.last = [call |-> "fired", w |-> w]]
    /\ UNCHANGED <<proto, wire, sub, sCurrentState, events, quit, startOnce, stopOnce, stopPc,
                   callers, driver, engine>>

\* A waiter's case <-s.quit
WaiterQuit(w) ==
    /\ workers[w].kind \in {"spend", "conf"}
    /\ workers[w].pc = "wait"
    /\ quit
    /\ workers' = [workers EXCEPT ![w] = Exited]
    /\ wg' = wg - 1
    /\ Quiet
    /\ UNCHANGED <<proto, wire, sub, sCurrentState, events, quit, startOnce, stopOnce, stopPc,
                   callers, driver, engine>>

\* A worker inside SendEvent: case s.events <- event
WorkerSendAccept(w) ==
    /\ workers[w].pc = "send"
    /\ HasRoom(events)
    /\ events' = Append(events, Ev(PostKind(workers[w].kind), 0, Late))
    /\ workers' = [workers EXCEPT ![w] = Exited]
    /\ wg' = wg - 1
    /\ obs' = [obs EXCEPT !.last = [call |-> "inject", w |-> w,
                                    kind |-> workers[w].kind,
                                    firedLate |-> workers[w].late]]
    /\ UNCHANGED <<proto, wire, sub, sCurrentState, quit, startOnce, stopOnce, stopPc, callers,
                   driver, engine>>

\* A worker inside SendEvent: case <-s.quit
WorkerSendQuit(w) ==
    /\ workers[w].pc = "send"
    /\ SendSeesQuit
    /\ workers' = [workers EXCEPT ![w] = Exited]
    /\ wg' = wg - 1
    /\ Quiet
    /\ UNCHANGED <<proto, wire, sub, sCurrentState, events, quit, startOnce, stopOnce, stopPc,
                   callers, driver, engine>>

\* ------------------------------------------------- specifications
\* The executor once started and never stopped: the driver, the engine,
\* the dispatcher and the workers, for a protocol of any transitions.
Next ==
    \/ Start
    \/ \E i \in Senders : SendCall(i)
    \/ \E i \in Senders : SendAccept(i)
    \/ DriverNotify
    \/ DriverRecvEvent
    \/ ApplyStep
    \/ DriverAfterApply
    \/ \E w \in Workers : PollerTick(w)
    \/ \E w \in Workers : WaiterFire(w)
    \/ \E w \in Workers : WorkerSendAccept(w)

Spec == Init /\ [][Next]_vars

\* The executor with Stop, for a protocol of flat transitions.
StopInit == proto = FlatProto /\ Fresh

StopNext ==
    \/ Next
    \/ StopCall
    \/ StopReturn
    \/ \E i \in Senders : SendQuit(i)
    \/ DriverQuit
    \/ \E w \in Workers : PollerQuit(w)
    \/ \E w \in Workers : WaiterQuit(w)
    \/ \E w \in Workers : WorkerSendQuit(w)

StopSpec == StopInit /\ [][StopNext]_vars

\* Scheduling: Stop and the driver keep running when they can (ProcessEvent
\* and the adapter calls return), a driver select with the quit case ready
\* takes it sooner or later, and a worker whose select has the quit case
\* ready takes a case.
Fairness ==
    /\ WF_vars(StopReturn)
    /\ WF_vars(DriverNotify \/ ApplyStep \/ DriverAfterApply \/ DriverReply)
    /\ SF_vars(DriverQuit)
    /\ WF_vars(\E w \in Workers :
                  PollerQuit(w) \/ WaiterQuit(w) \/ WorkerSendQuit(w))

\* The executor with Stop and CurrentState callers, for a protocol that
\* registers workers.
WaitInit == proto = WaitProto /\ Fresh

WaitNext ==
    \/ StopNext
    \/ QueryCall
    \/ QueryQuit
    \/ QueryRecv
    \/ QueryTimeout
    \/ DriverRecvQuery
    \/ DriverReply

FairStopSpec ==
    WaitInit /\ [][WaitNext]_vars /\ Fairness

\* The executor with Stop and CurrentState callers, for a protocol that
\* spawns no worker.
QueryInit == proto = PlainProto /\ Fresh

QueryNext ==
    \/ Start
    \/ StopCall
    \/ StopReturn
    \/ \E i \in Senders : SendCall(i)
    \/ \E i \in Senders : SendAccept(i)
    \/ \E i \in Senders : SendQuit(i)
    \/ DriverNotify
    \/ DriverRecvEvent
    \/ ApplyStep
    \/ DriverAfterApply
    \/ DriverRecvQuery
    \/ DriverReply
    \/ DriverQuit
    \/ QueryCall
    \/ QueryQuit
    \/ QueryRecv
    \/ QueryTimeout

QuerySpec == QueryInit /\ [][QueryNext]_vars

\* Scheduling for the CurrentState caller: besides Fairness, a driver
\* select with a query ready takes it sooner or later, a caller whose
\* select has the quit case ready takes a case, and the reply or the
\* one-second timer ends the wait.  Start and Stop are the callers' to
\* make or not.
QueryFairness ==
    /\ Fairness
    /\ SF_vars(DriverRecvQuery)
    /\ WF_vars(QueryQuit)
    /\ WF_vars(QueryRecv \/ QueryTimeout)

FairQuerySpec == QuerySpec /\ QueryFairness

\* The started executor with a subscriber, for a protocol of chained
\* transitions that spawns no worker.
NotifyInit == proto = ChainProto /\ Fresh

NotifyNext ==
    \/ RegisterStateEvents
    \/ Start
    \/ \E i \in Senders : SendCall(i)
    \/ \E i \in Senders : SendAccept(i)
    \/ DriverNotify
    \/ DriverRecvEvent
    \/ ApplyStep
    \/ DriverAfterApply

NotifySpec == NotifyInit /\ [][NotifyNext]_vars

\* The started executor running sends with post-send events; the pollers
\* poll and the injectors hand their events to SendEvent.
GateInit == proto = GateProto /\ Fresh

GateNext ==
    \/ Start
    \/ \E i \in Senders : SendCall(i)
    \/ \E i \in Senders : SendAccept(i)
    \/ DriverNotify
    \/ DriverRecvEvent
    \/ ApplyStep
    \/ DriverAfterApply
    \/ \E w \in Workers : PollerTick(w)
    \/ \E w \in Workers : WorkerSendAccept(w)

GateSpec == GateInit /\ [][GateNext]_vars

\* ------------------------------------------------- ChannelAnnouncement2
\* The values of a chainhash.Hash.
Hashes == 0..MaxHash

\* tlv.OptionalRecordT: <<>> is None, <<v>> is Some(v).
Options == {<<>>} \cup { <<v>> : v \in Hashes }

\* A TLV record of the stream: its type and its value.
Record(t, v) == [type |-> t, val |-> v]

\* The records of an optional field.
WhenSome(t, opt) == IF opt = <<>> THEN <<>> ELSE <<Record(t, opt[1])>>

\* tlv.SortRecords: the records by ascending type (insertion of one record).
RECURSIVE InsertRecord(_, _)
InsertRecord(r, recs) ==
    IF recs = <<>> THEN <<r>>
    ELSE IF r.type < Head(recs).type THEN <<r>> \o recs
    ELSE <<Head(recs)>> \o InsertRecord(r, Tail(recs))

\* EncodeMessageExtraData: the TLV stream of the record producers, sorted
\* by type.
RECURSIVE EncodeMessageExtraData(_)
EncodeMessageExtraData(producers) ==
    IF producers = <<>> THEN <<>>
    ELSE InsertRecord(Head(producers), EncodeMessageExtraData(Tail(producers)))

\* The typeMap ExtractRecords returns: the types found in the stream.
TypeMap(tlvRecords) == { tlvRecords[i].type : i \in 1..Len(tlvRecords) }

\* ExtractRecords on one record: its value in the stream, or the value the
\* record had when its type is not in the stream.
RECURSIVE ExtractRecord(_, _, _)
ExtractRecord(tlvRecords, t, was) ==
    IF tlvRecords = <<>> THEN was
    ELSE IF Head(tlvRecords).type = t THEN Head(tlvRecords).val
    ELSE ExtractRecord(Tail(tlvRecords), t, was)

\* The chain-hash record left out when the hash is the zero hash.
OmitsZeroHash(h) == h # ZeroHash

\* if !c.ChainHash.Val.IsEqual(chaincfg.MainNetParams.GenesisHash)
IncludesChainHash(h) == h # MainNetGenesisHash

\* DataToSign: the TLV stream of the message, which it also stores in
\* c.ExtraOpaqueData.
DataToSign(c) ==
    EncodeMessageExtraData(
        (IF IncludesChainHash(c.ChainHash)
         THEN <<Record(0, c.ChainHash)>> ELSE <<>>)
        \o <<Record(2, c.Features), Record(4, c.ShortChannelID),
              Record(6, c.Capacity), Record(8, c.NodeID1),
              Record(10, c.NodeID2)>>
        \o WhenSome(12, c.BitcoinKey1)
        \o WhenSome(14, c.BitcoinKey2)
        \o WhenSome(16, c.MerkleRootHash))

\* A decoded chain hash that stays what the receiver held when the record
\* is absent.
KeepsChainHash(c, chainHash, present) == IF present THEN chainHash ELSE c.ChainHash

\* c.ChainHash.Val = *chaincfg.MainNetParams.GenesisHash; if the record is
\* in typeMap, c.ChainHash.Val = chainHash.Val
DecodedChainHash(c, chainHash, present) ==
    IF present THEN chainHash ELSE MainNetGenesisHash

\* An optional field after decoding: set when its type is in typeMap.
DecodedOption(tlvRecords, t, was) ==
    IF t \in TypeMap(tlvRecords)
    THEN <<ExtractRecord(tlvRecords, t, ZeroHash)>>
    ELSE was

\* DecodeTLVRecords into the message c from the stream tlvRecords
DecodeTLVRecords(c, tlvRecords) ==
    [ChainHash       |-> DecodedChainHash(c,
                             ExtractRecord(tlvRecords, 0, ZeroHash),
                             0 \in TypeMap(tlvRecords)),
     Features        |-> ExtractRecord(tlvRecords, 2, c.Features),
     ShortChannelID  |-> ExtractRecord(tlvRecords, 4, c.ShortChannelID),
     Capacity        |-> ExtractRecord(tlvRecords, 6, c.Capacity),
     NodeID1         |-> ExtractRecord(tlvRecords, 8, c.NodeID1),
     NodeID2         |-> ExtractRecord(tlvRecords, 10, c.NodeID2),
     BitcoinKey1     |-> DecodedOption(tlvRecords, 12, c.BitcoinKey1),
     BitcoinKey2     |-> DecodedOption(tlvRecords, 14, c.BitcoinKey2),
     MerkleRootHash  |-> DecodedOption(tlvRecords, 16, c.MerkleRootHash),
     ExtraOpaqueData |-> IF Len(tlvRecords) # 0 THEN tlvRecords
                         ELSE c.ExtraOpaqueData]

\* A ChannelAnnouncement2 with the given chain hash and optional fields.
Announcement(h, k1, k2, m) ==
    [ChainHash |-> h, Features |-> ZeroHash, ShortChannelID |-> ZeroHash,
     Capacity |-> ZeroHash, NodeID1 |-> ZeroHash, NodeID2 |-> ZeroHash,
     BitcoinKey1 |-> k1, BitcoinKey2 |-> k2, MerkleRootHash |-> m,
     ExtraOpaqueData |-> <<>>]

\* The messages a caller builds.
Announcements ==
    { Announcement(h, k1, k2, m) :
        h \in Hashes, k1 \in Options, k2 \in Options, m \in Options }

\* c.DataToSign() on the message the caller built
SignAnnouncement ==
    /\ wire.pc = "built"
    /\ LET data == DataToSign(wire.c)
       IN wire' = [wire EXCEPT !.pc = "signed", !.data = data,
                               !.c = [@ EXCEPT !.ExtraOpaqueData = data]]
    /\ UNCHANGED machine

\* into.DecodeTLVRecords(data) on a receiver whose message holds any chain
\* hash so far
DecodeAnnouncement ==
    /\ wire.pc = "signed"
    /\ \E h \in Hashes :
          wire' = [wire EXCEPT
                     !.pc = "decoded",
                     !.into = DecodeTLVRecords(
                                  Announcement(h, <<>>, <<>>, <<>>), wire.data)]
    /\ UNCHANGED machine

\* A message of every chain hash, signed and then decoded from its own
\* TLV data.
WireInit ==
    /\ proto = PlainProto
    /\ NewStateMachine
    /\ \E c \in Announcements :
          wire = [pc |-> "built", c |-> c, data |-> <<>>,
                  into |-> Announcement(ZeroHash, <<>>, <<>>, <<>>)]

WireNext == SignAnnouncement \/ DecodeAnnouncement

WireSpec == WireInit /\ [][WireNext]_vars

\* ------------------------------------------------- claims
Last == obs.last

Alive(w) == workers[w].pc \notin {"none", "done"}

\* C1: every event taken from the intake is first applied to the state
\* that the most recently completed event chain resulted in, which is the
\* one the driver holds and answers CurrentState with (the initial state
\* when no chain has completed).
C1_AppliedToLatestState ==
    (driverPc = "apply" /\ chainLen = 0 /\ ~aErr /\ eventQueue # <<>>)
        => aCurrentState = dCurrentState

\* C2: Environment.CleanUp is invoked at most once over the executor's
\* lifetime.
C2_CleanUpAtMostOnce == obs.cleanUps <= 1

\* C3: every ProcessEvent call of an event chain happens before the
\* ProcessEvent call of any event taken from the intake later: no call
\* belongs to an older chain than a call made before it, and the driver
\* is back at its select only with the internal queue empty.
C3_InternalBeforeNextExternal ==
    /\ obs.orderOk
    /\ driverPc # "apply" => eventQueue = <<>>

\* C3 witness: an internal event is processed while a later event already
\* waits in the intake.
C3_Witness ==
    /\ Last.call = "ProcessEvent"
    /\ Last.ev.k = "int"
    /\ events # <<>>

\* C4: the daemon events of a transition are dispatched in declared order
\* (positions 1, 2, ... with none skipped), all of them before the
\* transition's internal event is enqueued, and the internal queue is
\* served from its head (it never holds more than the one event just
\* enqueued).
C4_DispatchOrder ==
    /\ Last.call = "ProcessEvent" =>
          /\ Len(Last.dlog) <= Last.dlen
          /\ \A i \in 1..Len(Last.dlog) : Last.dlog[i] = i
          /\ Last.enq => Len(Last.dlog) = Last.dlen /\ eventQueue # <<>>
    /\ Len(eventQueue) <= 1

\* C4 witness: a transition with two daemon events and an internal event.
C4_Witness ==
    /\ Last.call = "ProcessEvent"
    /\ Last.dlog = <<1, 2>>
    /\ Last.enq

\* C5: when an event chain has produced a terminal state, CleanUp has been
\* invoked by the time the driver is back at its select.
C5_CleanUpOnTerminal ==
    (Last.call = "applyEvents" /\ Last.terminal) => obs.cleanUps >= 1

\* C6: after Stop has returned no event is processed and the driver and
\* every worker have exited.
C6_ShutdownDrains ==
    stopPc = "returned" =>
        /\ driverPc \in {"off", "done"}
        /\ \A w \in Workers : ~Alive(w)
        /\ Last.call # "ProcessEvent"

\* C7: once Stop is called on a started executor, Stop returns.
C7_StopReturns == (stopPc = "waiting" /\ startOnce) ~> (stopPc = "returned")

\* C7 witness: Stop is waiting while a worker is blocked in SendEvent on a
\* full intake that the driver no longer reads.
C7_Witness ==
    /\ stopPc = "waiting"
    /\ driverPc = "done"
    /\ Len(events) = EventsCap
    /\ \E w \in Workers : workers[w].pc = "send"

\* C8: any number of Start calls spawns exactly one driver and any number
\* of Stop calls closes quit exactly once.
C8_IdempotentLifecycle ==
    /\ obs.drivers = (IF startOnce THEN 1 ELSE 0)
    /\ obs.closes = (IF stopOnce THEN 1 ELSE 0)

\* C8 witness: Start is called again on a machine that was started and
\* stopped.
C8_Witness ==
    /\ Last.call = "Start"
    /\ Last.again
    /\ stopOnce
    /\ obs.drivers = 1
    /\ obs.closes = 1

\* C9 as stated: a poller calls SendMessages only on a poll that returned
\* true, then exactly once and exits, and never after quit was closed.
C9_GatedSendNeverAfterQuit ==
    /\ Last.call = "poll" =>
          /\ Last.sent <=> Last.canSend
          /\ Last.sent => Last.sends = 1 /\ ~Alive(Last.w)
          /\ Last.sent => ~Last.afterQuit
    /\ Last.call = "pollerQuit" => Last.sends = 0
    /\ \A w \in Workers : Alive(w) => workers[w].sends = 0

\* C9 amended: a poller calls SendMessages only on a poll that returned
\* true, then exactly once and exits; a poller that takes the quit case
\* has never called it.
C9_GatedSend ==
    /\ Last.call = "poll" =>
          /\ Last.sent <=> Last.canSend
          /\ Last.sent => Last.sends = 1 /\ ~Alive(Last.w)
    /\ Last.call = "pollerQuit" => Last.sends = 0
    /\ \A w \in Workers : Alive(w) => workers[w].sends = 0

\* C9 witness: a poll returns true before quit is closed; the poller
\* calls SendMessages once and exits.
C9_Witness ==
    /\ Last.call = "poll"
    /\ Last.canSend /\ Last.sent
    /\ Last.sends = 1
    /\ ~Alive(Last.w)
    /\ ~Last.afterQuit

\* C10: the dispatcher returns the unknown-daemon-event error only for an
\* event of none of the four kinds, and a RegisterConf whose registration
\* succeeds lets its transition complete.
C10_UnknownOnlyForOther ==
    Last.call = "ProcessEvent" =>
        /\ Last.exec.err = "unknown" => Last.exec.kind = "Other"
        /\ (Last.exec.kind = "RegisterConf" /\ Last.exec.ok) => Last.err = "none"

\* C11: every CurrentState call returns.
C11_QueryReturns == (qPc # "idle") ~> (qPc = "idle")

\* C12 as stated: a CurrentState call made after quit was closed never
\* returns a state, and a call that races with Stop (made before quit was
\* closed, returning after) returns a state or the shutting-down error.
C12_NoStateAfterQuit ==
    Last.call = "CurrentState" =>
        /\ Last.when \in {"late", "gone"} => Last.result \notin States
        /\ (Last.when = "early" /\ quit) => Last.result # "timeout"

\* C12 amended: a CurrentState call made after the driver has returned
\* ends with the shutting-down error, and a call ends with that error
\* only when quit is closed.
C12_ShutdownWhenGone ==
    Last.call = "CurrentState" =>
        /\ Last.when = "gone" => Last.result = "shutdown"
        /\ Last.result = "shutdown" => quit

\* C12 witness: a call made after the driver returned ends with the
\* shutting-down error.
C12_Witness ==
    /\ Last.call = "CurrentState"
    /\ Last.when = "gone"
    /\ Last.result = "shutdown"

\* C13: a subscriber registered before Start has the initial state as
\* its first notification, and has it once the driver is at its select,
\* before any transition is made.
C13_InitialStateFirst ==
    sub.reg = "early" =>
        /\ sub.inbox # <<>> => sub.inbox[1] = InitialState
        /\ driverPc \notin {"off", "notify"} => sub.inbox # <<>>

\* C13 witness: a subscriber registered before Start holds the initial
\* state followed by the state of a transition.
C13_Witness ==
    /\ sub.reg = "early"
    /\ Len(sub.inbox) = 2
    /\ sub.inbox[2] # InitialState

\* C14: a successful transition hands the subscriber exactly one
\* notification, its next state, after those it already holds; a failed
\* transition and every other step after the initial notification hand it
\* none.
C14_OneNotificationPerTransition ==
    [][(sub.reg # "no" /\ driverPc # "notify") =>
          IF Last' .call = "ProcessEvent" /\ Last' .err = "none"
          THEN sub' .inbox = Append(sub.inbox, aCurrentState')
          ELSE sub' .inbox = sub.inbox]_vars

\* C14 witness: after one external event that drove two transitions the
\* subscriber holds the initial state and the two next states.
C14_Witness ==
    /\ sub.reg = "early"
    /\ obs.chainNo = 1
    /\ chainLen = 2
    /\ Len(sub.inbox) = 3
    /\ sub.inbox[3] = aCurrentState

C16_LateEventDropped ==
    (Last.call = "ProcessEvent" /\ Last.ev.k = "ext") => ~Last.ev.late

\* C17: the postSpend event of a spend waiter whose spend fired after
\* quit was closed is never injected into the intake.
C17_NoPostSpendAfterShutdown ==
    (Last.call = "inject" /\ Last.kind = "spend") => ~Last.firedLate

\* C18: the intake never holds more than one event, and a SendEvent call
\* returns only by handing its event to an intake that has room or with
\* quit closed.
C18_IntakeBounded ==
    /\ [](Len(events) <= EventsCap)
    /\ [][\A i \in Senders :
            (senders[i].pc = "blocked" /\ senders' [i].pc = "done") =>
                \/ Len(events) < EventsCap /\ events' = Append(events, Ev("ext", 0, senders[i].late))
                \/ quit /\ events' = events]_vars

\* C18 witness: a SendEvent caller is blocked on the full intake with quit
\* open.
C18_Witness ==
    /\ ~quit
    /\ Len(events) = EventsCap
    /\ \E i \in Senders : senders[i].pc = "blocked"

\* C19: when executeDaemonEvent returns an error for a daemon event, that
\* event is the last one dispatched, the internal event is not enqueued,
\* applyEvents' state and the published state stay as they were, no
\* subscriber is notified, no further event of the call is processed and
\* the driver keeps the state it had.
C19_DispatchErrorAborts ==
    /\ [][(Last' .call = "ProcessEvent" /\ Last' .err \notin {"none", "process"}) =>
            /\ Last' .exec.err = Last' .err
            /\ Last' .dlog = [i \in 1..Len(Last' .dlog) |-> i]
            /\ Len(Last' .dlog) <= Last' .dlen
            /\ ~Last' .enq
            /\ eventQueue' = Tail(eventQueue)
            /\ events' = events
            /\ aCurrentState' = aCurrentState
            /\ obs' .published = obs.published
            /\ sub' = sub
            /\ aErr']_vars
    /\ [][aErr =>
            /\ Last' .call # "ProcessEvent"
            /\ driverPc' = "select" => dCurrentState' = dCurrentState]_vars

\* C19 witness: the first of two daemon events fails in the second
\* transition of a chain, whose first transition was published.
C19_Witness ==
    /\ Last.call = "ProcessEvent"
    /\ Last.err = "broadcast"
    /\ Last.dlen = 2
    /\ Last.dlog = <<1>>
    /\ chainLen = 1
    /\ aErr

\* C20: the driver's own steps never send to the intake channel and need
\* no room in it: between dequeuing an event and going back to its select
\* it can always take its next step, however full the intake is and
\* whatever injections are pending.
C20_DriverNeverSendsToIntake ==
    /\ [][Last' .call \in {"ProcessEvent", "applyEvents"} =>
              events' = events]_vars
    /\ [](driverPc = "apply" => ENABLED (ApplyStep \/ DriverAfterApply))

\* C20 witness: the driver is back at its select after a chain that left
\* a post-send injection pending while the intake is full.
C20_Witness ==
    /\ Last.call = "applyEvents"
    /\ driverPc = "select"
    /\ ~quit
    /\ Len(events) = EventsCap
    /\ \E w \in Workers : workers[w].kind = "inject" /\ workers[w].pc = "send"

\* C21: whenever the driver is at its select, the state it would answer a
\* CurrentState query with is the state last handed to NotifySubscribers,
\* also after a chain that made successful transitions and then failed.
C21_QueryMatchesPublished ==
    driverPc = "select" => dCurrentState = obs.published

\* The goroutines counted by s.wg that have not returned: the driver and
\* the workers.
Counted ==
    Cardinality({w \in Workers : Alive(w)})
        + (IF driverPc \in {"off", "done"} THEN 0 ELSE 1)

NewInjector ==
    \E w \in Workers : workers[w].kind # "inject" /\ workers' [w].kind = "inject"

\* C23: a post-send injector is started only by a SendMessages call that
\* returned success.  An ungated send that fails is returned to the engine
\* as the error of the step and starts no injector; a gated send that
\* fails after its predicate turned true starts no injector, is not
\* retried (the poller has made one send and has exited) and leaves the
\* driver and the intake as they were.
C23_PostSendOnlyOnSuccess ==
    /\ [][NewInjector =>
              \/ /\ Last' .call = "ProcessEvent"
                 /\ Last' .exec = [kind |-> "SendMsgEvent", ok |-> TRUE,
                                   err |-> "none"]
              \/ /\ Last' .call = "poll"
                 /\ Last' .sent /\ Last' .ok]_vars
    /\ [][(/\ Last' .call = "ProcessEvent"
           /\ Last' .exec.kind = "SendMsgEvent"
           /\ ~Last' .exec.ok) =>
              /\ Last' .err = "send"
              /\ aErr'
              /\ ~NewInjector
              /\ wg' = wg]_vars
    /\ [][(Last' .call = "poll" /\ Last' .sent /\ ~Last' .ok) =>
              /\ ~NewInjector
              /\ ~Last' .inject
              /\ Last' .sends = 1
              /\ workers' [Last' .w].pc = "done"
              /\ wg' = wg - 1
              /\ UNCHANGED <<events, driver, engine, sCurrentState, sub>>
              /\ obs' .published = obs.published]_vars

\* C23 witness: in a run where every send has a post-send event, a gated
\* send fails after its predicate turned true; the poller has exited and
\* there is no injector.
C23_Witness ==
    /\ proto = GateProto
    /\ Last.call = "poll"
    /\ Last.sent /\ ~Last.ok
    /\ workers[Last.w].pc = "done"
    /\ \A w \in Workers : workers[w].kind # "inject"
    /\ driverPc = "select"

\* The TLV data holds a chain-hash record (type 0).
HasChainHashRecord(data) == \E i \in 1..Len(data) : data[i].type = 0

\* C24: the data DataToSign produces holds the chain-hash record exactly
\* when the message's chain hash is not the mainnet genesis hash, and then
\* with that hash as its value; decoding gives the mainnet genesis hash
\* when the record is absent and the record's value when it is present;
\* so the decoded chain hash is the one of the message that was signed.
C24_ChainHashRoundTrip ==
    /\ wire.pc \in {"signed", "decoded"} =>
          /\ HasChainHashRecord(wire.data) <=>
                 wire.c.ChainHash # MainNetGenesisHash
          /\ \A i \in 1..Len(wire.data) :
                 wire.data[i].type = 0 => wire.data[i].val = wire.c.ChainHash
    /\ wire.pc = "decoded" =>
          /\ ~HasChainHashRecord(wire.data) =>
                 wire.into.ChainHash = MainNetGenesisHash
          /\ \A i \in 1..Len(wire.data) :
                 wire.data[i].type = 0 =>
                     wire.into.ChainHash = wire.data[i].val
          /\ wire.into.ChainHash = wire.c.ChainHash

\* C24 witness: a mainnet message with all optional fields, decoded from
\* data that has no chain-hash record.
C24_Witness ==
    /\ wire.pc = "decoded"
    /\ wire.c.ChainHash = MainNetGenesisHash
    /\ ~HasChainHashRecord(wire.data)
    /\ Len(wire.data) = 8
    /\ wire.into.ChainHash = MainNetGenesisHash

====
